---- MODULE Spec2Model ----
(***************************************************************************)
(* Model of scripts/scrapers/forum_scraper/forum_dump.py: the URL          *)
(* discovery loop ForumDumper.collect_question_urls and the checkpointed   *)
(* run loop ForumDumper.run.                                               *)
(*                                                                         *)
(* Strings that the code takes apart (hrefs) are sequences of one-letter   *)
(* strings.  Optional values use the falsy value the code tests for:       *)
(* test_limit = 0 and max_pages = 0 stand for None (`if self.test_limit`). *)
(*                                                                         *)
(* Writes to the output file succeed: an OSError out of _save is not       *)
(* modelled.                                                               *)
(*                                                                         *)
(* Spec        : collect_question_urls, from its first scan to its return. *)
(* LiveSpec    : Spec with the loop of collect_question_urls always taking *)
(*               its next step.                                            *)
(* RunSpec     : run(), from the return of collect_question_urls to its    *)
(*               end.                                                      *)
(* InitSpec    : ForumDumper.__init__, from the loading of the config file *)
(*               to the creation of the webdriver.                         *)
(* SelectSpec  : _select_text and _extract_description on one selector     *)
(*               chain and one document.                                   *)
(* StatusSpec  : _extract_status on the status labels of one document.     *)
(* RepliesSpec : _extract_replies and the accepted-answer loop of          *)
(*               extract_thread on the reply items of one thread page.     *)
(***************************************************************************)
EXTENDS Integers, Sequences, FiniteSets, TLC

VARIABLES
    test_limit,        \* self.test_limit (0: None)
    max_pages,         \* self.max_pages (0: None)
    max_stale_rounds,  \* self.max_stale_rounds
    checkpoint_every,  \* self.checkpoint_every
    since_dt,          \* self.since_dt
    page_source,       \* the links soup.find_all("a", href=url_pattern) yields on the current listing page
    driver,            \* the browser session: "open" or "quit"
    pc,                \* position in collect_question_urls / run
    urls,              \* local urls of collect_question_urls, then of run
    seen,              \* local seen
    click_count,       \* local click_count
    stale_rounds,      \* local stale_rounds
    rounds,            \* history: scan rounds performed
    new_log,           \* history: new_this_round of each round
    stop,              \* history: which break left the loop
    page_changed,      \* history: the page source differed between two scans
    index,             \* run: loop index (1-based)
    thread,            \* run: result of extract_thread for urls[index]
    threads,           \* run: accumulator
    skipped_since,     \* run: skipped_since
    file,              \* the output file
    writes,            \* history: every _save, in order: loop index, checkpoint flag, records written
    extracted,         \* history: per processed URL, how its extraction ended
    ret,               \* return value of run
    raw_config,        \* __init__: what the config file holds for the forum key
    soup,              \* the parsed document an extractor reads
    out                \* what the extractor returns

cfg_vars == <<test_limit, max_pages, max_stale_rounds, checkpoint_every, since_dt>>
disc_vars == <<page_source, urls, seen, click_count, stale_rounds, rounds, new_log, stop, page_changed>>
run_vars == <<index, thread, threads, skipped_since, file, writes, extracted, ret, driver>>
ext_vars == <<raw_config, soup, out>>
vars == <<cfg_vars, disc_vars, run_vars, ext_vars, pc>>

-----------------------------------------------------------------------------
(* Bounds *)
MaxLinks == 2          \* links on one listing page
MaxTestLimit == 2      \* largest --test
MaxMaxPages == 2       \* largest --max-pages
MaxStaleRounds == 2    \* largest defaults.max_stale_rounds
MaxUrls == 5           \* URLs handed to the run loop
MaxCheckpoint == 2     \* largest |defaults.checkpoint_every|

-----------------------------------------------------------------------------
(* Strings *)
Digits == {"0", "1", "2", "3", "4", "5", "6", "7", "8", "9"}

thread_base == <<"h", "t", "t", "p", ":", "/", "/", "x">>

StartsWith(s, p) == Len(s) >= Len(p) /\ SubSeq(s, 1, Len(p)) = p

\* re.sub(r"\?.*$", "", href): everything from the first "?" on is removed
RECURSIVE StripQuery(_)
StripQuery(s) ==
    IF s = <<>> \/ Head(s) = "?" THEN <<>>
    ELSE <<Head(s)>> \o StripQuery(Tail(s))

\* href.lstrip("/")
RECURSIVE LStripSlash(_)
LStripSlash(s) ==
    IF s # <<>> /\ Head(s) = "/" THEN LStripSlash(Tail(s)) ELSE s

RECURSIVE TrailingDigits(_)
TrailingDigits(s) ==
    IF s # <<>> /\ s[Len(s)] \in Digits
    THEN 1 + TrailingDigits(SubSeq(s, 1, Len(s) - 1))
    ELSE 0

\* re.search(r"-\d{3,}$", href)
EndsWithId(s) ==
    LET d == TrailingDigits(s)
    IN d >= 3 /\ Len(s) > d /\ s[Len(s) - d] = "-"

\* lines 245-247: the href as it is stored
Canonical(href) ==
    LET h == StripQuery(href)
    IN IF StartsWith(h, <<"h", "t", "t", "p">>) THEN h
       ELSE thread_base \o <<"/">> \o LStripSlash(h)

\* The hrefs a listing page can carry
\*   /t/a-123                  relative
\*   http://x/t/a-123?p=2      the same thread, absolute and with a query
\*   t/b-4567                  relative, no leading slash
\*   /t/d-12?p=345             an id of two digits: not a thread link
Href_a       == <<"/", "t", "/", "a", "-", "1", "2", "3">>
Href_a_abs_q == thread_base \o <<"/", "t", "/", "a", "-", "1", "2", "3", "?", "p", "=", "2">>
Href_b       == <<"t", "/", "b", "-", "4", "5", "6", "7">>
Href_short   == <<"/", "t", "/", "d", "-", "1", "2", "?", "p", "-", "3", "4", "5">>
Hrefs == {Href_a, Href_a_abs_q, Href_b, Href_short}

Pages == UNION {[1..n -> Hrefs] : n \in 0..MaxLinks}

Range(f) == {f[i] : i \in DOMAIN f}
Take(s, n) == SubSeq(s, 1, IF n < Len(s) THEN n ELSE Len(s))

-----------------------------------------------------------------------------
(* collect_question_urls *)

\* ScanLinks without the `href not in seen` test
RECURSIVE ScanLinks_nodedup(_, _, _)
ScanLinks_nodedup(links, us, sn) ==
    IF links = <<>> THEN [urls |-> us, seen |-> sn]
    ELSE LET href == Canonical(Head(links))
         IN IF ~EndsWithId(href) THEN ScanLinks_nodedup(Tail(links), us, sn)
            ELSE ScanLinks_nodedup(Tail(links), Append(us, href), sn \cup {href})

\* lines 243-253: the for loop over links; yields the new urls and seen
RECURSIVE ScanLinks(_, _, _)
ScanLinks(links, us, sn) ==
    IF links = <<>> THEN [urls |-> us, seen |-> sn]
    ELSE LET href == Canonical(Head(links))
         IN IF ~EndsWithId(href) THEN ScanLinks(Tail(links), us, sn)
            ELSE IF href \notin sn
                 THEN ScanLinks(Tail(links), Append(us, href), sn \cup {href})
                 ELSE ScanLinks(Tail(links), us, sn)

\* line 270
TestLimitReached == test_limit # 0 /\ Len(urls) >= test_limit
\* `>` in place of `>=`
MaxPagesReached_gt == max_pages # 0 /\ click_count > max_pages
\* line 280
MaxPagesReached == max_pages # 0 /\ click_count >= max_pages
\* `>` in place of `>=`
StaleLimitReached_gt == stale_rounds > max_stale_rounds
\* line 290
StaleLimitReached == stale_rounds >= max_stale_rounds

\* Python's None
None == [none |-> TRUE]
NoThread == [unset |-> TRUE]
OldFile == [exists |-> TRUE, content |-> <<[url |-> <<"o", "l", "d">>]>>]

NoDocument == [unset |-> TRUE]
ExtIdle ==
    /\ raw_config = NoDocument
    /\ soup = NoDocument
    /\ out = NoDocument

RunIdle ==
    /\ index = 0
    /\ thread = NoThread
    /\ threads = <<>>
    /\ skipped_since = 0
    /\ file = OldFile
    /\ writes = <<>>
    /\ extracted = <<>>
    /\ ret = <<>>
    /\ driver = "open"

\* State when the while loop is entered (lines 222-236)
Init ==
    /\ test_limit \in 0..MaxTestLimit
    /\ max_pages \in 0..MaxMaxPages
    /\ max_stale_rounds \in 0..MaxStaleRounds
    /\ checkpoint_every = 50
    /\ since_dt = None
    /\ page_source \in Pages
    /\ pc = "scan"
    /\ urls = <<>>
    /\ seen = {}
    /\ click_count = 0
    /\ stale_rounds = 0
    /\ rounds = 0
    /\ new_log = <<>>
    /\ stop = "none"
    /\ page_changed = FALSE
    /\ RunIdle
    /\ ExtIdle

\* a scan round that never resets the stale counter
Scan_noreset ==
    /\ pc = "scan"
    /\ LET r == ScanLinks(page_source, urls, seen)
           new_this_round == Len(r.urls) - Len(urls)
       IN /\ urls' = r.urls
          /\ seen' = r.seen
          /\ stale_rounds' = IF new_this_round > 0 THEN stale_rounds ELSE stale_rounds + 1
          /\ new_log' = Append(new_log, new_this_round)
    /\ rounds' = rounds + 1
    /\ pc' = "decide"
    /\ UNCHANGED <<cfg_vars, ext_vars, run_vars, page_source, click_count, stop, page_changed>>

\* lines 239-258: one scan round
Scan ==
    /\ pc = "scan"
    /\ LET r == ScanLinks(page_source, urls, seen)
           new_this_round == Len(r.urls) - Len(urls)
       IN /\ urls' = r.urls
          /\ seen' = r.seen
          /\ stale_rounds' = IF new_this_round > 0 THEN 0 ELSE stale_rounds + 1
          /\ new_log' = Append(new_log, new_this_round)
    /\ rounds' = rounds + 1
    /\ pc' = "decide"
    /\ UNCHANGED <<cfg_vars, ext_vars, run_vars, page_source, click_count, stop, page_changed>>

\* the test-limit break without the slice urls[: test_limit]
StopTestLimit_noslice ==
    /\ pc = "decide"
    /\ TestLimitReached
    /\ stop' = "test_limit"
    /\ pc' = "returned"
    /\ UNCHANGED <<cfg_vars, ext_vars, run_vars, page_source, urls, seen, click_count, stale_rounds, rounds, new_log, page_changed>>

\* lines 270-278
StopTestLimit ==
    /\ pc = "decide"
    /\ TestLimitReached
    /\ urls' = Take(urls, test_limit)
    /\ stop' = "test_limit"
    /\ pc' = "returned"
    /\ UNCHANGED <<cfg_vars, ext_vars, run_vars, page_source, seen, click_count, stale_rounds, rounds, new_log, page_changed>>

\* the max-pages test placed before the test-limit test
StopMaxPages_first ==
    /\ pc = "decide"
    /\ MaxPagesReached
    /\ stop' = "max_pages"
    /\ pc' = "returned"
    /\ UNCHANGED <<cfg_vars, ext_vars, run_vars, page_source, urls, seen, click_count, stale_rounds, rounds, new_log, page_changed>>

\* lines 280-288
StopMaxPages ==
    /\ pc = "decide"
    /\ ~TestLimitReached
    /\ MaxPagesReached
    /\ stop' = "max_pages"
    /\ pc' = "returned"
    /\ UNCHANGED <<cfg_vars, ext_vars, run_vars, page_source, urls, seen, click_count, stale_rounds, rounds, new_log, page_changed>>

\* the stale break returning the list without its last URL
StopStale_drops_last ==
    /\ pc = "decide"
    /\ ~TestLimitReached
    /\ ~MaxPagesReached
    /\ StaleLimitReached
    /\ urls' = Take(urls, Len(urls) - 1)
    /\ stop' = "stale"
    /\ pc' = "returned"
    /\ UNCHANGED <<cfg_vars, ext_vars, run_vars, page_source, seen, click_count, stale_rounds, rounds, new_log, page_changed>>

\* lines 290-298
StopStale ==
    /\ pc = "decide"
    /\ ~TestLimitReached
    /\ ~MaxPagesReached
    /\ StaleLimitReached
    /\ stop' = "stale"
    /\ pc' = "returned"
    /\ UNCHANGED <<cfg_vars, ext_vars, run_vars, page_source, urls, seen, click_count, stale_rounds, rounds, new_log, page_changed>>

\* a successful click that also clears the stale counter
ClickLoadMore_clears_stale ==
    /\ pc = "decide"
    /\ ~TestLimitReached
    /\ ~MaxPagesReached
    /\ ~StaleLimitReached
    /\ click_count' = click_count + 1
    /\ stale_rounds' = 0
    /\ \E p \in Pages :
         /\ page_source' = p
         /\ page_changed' = (page_changed \/ p # page_source)
    /\ pc' = "scan"
    /\ UNCHANGED <<cfg_vars, ext_vars, run_vars, urls, seen, rounds, new_log, stop>>

\* lines 300-307: the control is found and clicked; the listing may or may
\* not show other links afterwards
ClickLoadMore ==
    /\ pc = "decide"
    /\ ~TestLimitReached
    /\ ~MaxPagesReached
    /\ ~StaleLimitReached
    /\ click_count' = click_count + 1
    /\ \E p \in Pages :
         /\ page_source' = p
         /\ page_changed' = (page_changed \/ p # page_source)
    /\ pc' = "scan"
    /\ UNCHANGED <<cfg_vars, ext_vars, run_vars, urls, seen, stale_rounds, rounds, new_log, stop>>

\* a failed click followed by another scan round
ClickFails_retries ==
    /\ pc = "decide"
    /\ ~TestLimitReached
    /\ ~MaxPagesReached
    /\ ~StaleLimitReached
    /\ stop' = "button"
    /\ pc' = "scan"
    /\ UNCHANGED <<cfg_vars, ext_vars, run_vars, page_source, urls, seen, click_count, stale_rounds, rounds, new_log, page_changed>>

\* lines 301-318: find_element, scrollIntoView or click raises
ClickFails ==
    /\ pc = "decide"
    /\ ~TestLimitReached
    /\ ~MaxPagesReached
    /\ ~StaleLimitReached
    /\ stop' = "button"
    /\ pc' = "returned"
    /\ UNCHANGED <<cfg_vars, ext_vars, run_vars, page_source, urls, seen, click_count, stale_rounds, rounds, new_log, page_changed>>

Next ==
    \/ Scan
    \/ StopTestLimit
    \/ StopMaxPages
    \/ StopStale
    \/ ClickLoadMore
    \/ ClickFails

Spec == Init /\ [][Next]_vars

\* lines 270-318: the stop tests and the click that follow a scan
Decide ==
    \/ StopTestLimit
    \/ StopMaxPages
    \/ StopStale
    \/ ClickLoadMore
    \/ ClickFails

\* collect_question_urls runs on one thread, which takes its next step as
\* long as there is one: weak fairness of Decide and of Scan.  Scan is
\* enabled exactly when pc = "scan", and its weak fairness is written out
\* with that condition.
LiveSpec ==
    /\ Init
    /\ [][Next]_vars
    /\ WF_vars(Decide)
    /\ ([]<>(pc # "scan") \/ []<><<Scan>>_vars)

-----------------------------------------------------------------------------
(* Dates *)

\* A date string is [fmt, day, tz]: the notation it is written in, the day
\* it names and its timezone suffix.  fmt is one of
\*   "ymd"        2023-06-01            (%Y-%m-%d)
\*   "ymd_hms"    2023-06-01 00:00:00   (%Y-%m-%d %H:%M:%S)
\*   "ymd_slash"  2023/06/01            (%Y/%m/%d)
\*   "mdy_slash"  06/01/2023            (%m/%d/%Y)
\*   "iso"        2023-06-01T00:00:00 with tz "", "Z" or "+00:00"
\*   "junk"       text no format accepts
\*   "blank"      white space only
\*   "empty"      ""
\* A datetime is [day, aware].
DateStr(f, d, z) == [fmt |-> f, day |-> d, tz |-> z]
EmptyStr == DateStr("empty", 0, "")
JunkStr == DateStr("junk", 0, "")
StrptimeFormats == {"ymd", "ymd_hms", "ymd_slash", "mdy_slash"}

\* lines 59-77
parse_date(value) ==
    IF value = None \/ value.fmt = "empty" THEN None
    ELSE IF value.fmt = "blank" THEN None
    ELSE IF value.fmt \in StrptimeFormats THEN [day |-> value.day, aware |-> FALSE]
    ELSE IF value.fmt = "iso" THEN [day |-> value.day, aware |-> value.tz # ""]
    ELSE None

\* parsed.strftime("%Y-%m-%d %H:%M:%S")
strftime(dt) == DateStr("ymd_hms", dt.day, "")

\* lines 361-375, given the datetime attribute of the time element (None: no
\* such element, or no such attribute)
extract_post_date(attr) ==
    IF attr # None /\ attr.fmt # "empty"
    THEN LET parsed == parse_date(attr)
         IN IF parsed # None THEN strftime(parsed) ELSE attr
    ELSE EmptyStr

\* posted >= self.since_dt on datetime objects
DatetimeGE(a, b) ==
    IF a.aware # b.aware THEN "TypeError"
    ELSE IF a.day >= b.day THEN "True" ELSE "False"

\* thread.get(key)
Get(t, key) == IF key \in DOMAIN t THEN t[key] ELSE None

\* a thread without a parsed date is not kept
is_after_since_strict(t) ==
    IF since_dt = None THEN "True"
    ELSE LET posted == parse_date(Get(t, "date_posted"))
         IN IF posted = None THEN "False"
            ELSE DatetimeGE(posted, since_dt)

\* lines 556-562
is_after_since(t) ==
    IF since_dt = None THEN "True"
    ELSE LET posted == parse_date(Get(t, "date_posted"))
         IN IF posted = None THEN "True"
            ELSE DatetimeGE(posted, since_dt)

-----------------------------------------------------------------------------
(* extract_thread *)

\* lines 495-527: the record of a thread whose page was loaded and parsed
ThreadRecord(url, attr) ==
    [url |-> url, title |-> "title", author |-> "author",
     date_posted |-> extract_post_date(attr), description |-> "body",
     tags |-> <<>>, views |-> 0, replies_count |-> 0, likes |-> 0,
     status |-> "unknown", accepted_answer |-> None, comments |-> <<>>,
     scraped_at |-> "now"]

\* lines 538-542: the record of a thread whose extraction raised
ErrorRecord(url, message) ==
    [url |-> url, error |-> message, scraped_at |-> "now"]

\* thread.get("error") taken as a condition
HasError(t) == "error" \in DOMAIN t /\ t.error # ""

-----------------------------------------------------------------------------
(* run *)

Letters == <<"a", "b", "c", "d", "e", "f", "g", "h">>
ThreadUrl(i) == thread_base \o <<"/", "t", "/", Letters[i], "-", "1", "2", "3">>
AllUrls == [i \in 1..MaxUrls |-> ThreadUrl(i)]

\* values of --since
SinceInputs == {None, DateStr("ymd", 1, ""), DateStr("iso", 1, "Z"), JunkStr}
\* values of the datetime attribute on a thread page
DateAttrs == {None, JunkStr, DateStr("ymd", 0, ""), DateStr("iso", 1, "Z")}
\* values of str(err)
Messages == {"", "boom"}

\* the remainder of a 0-based index (enumerate(urls) without the start 1)
PyMod_zero_based(a, b) ==
    IF b > 0 THEN (a - 1) % b
    ELSE LET r == (a - 1) % (0 - b) IN IF r = 0 THEN 0 ELSE r + b

\* Python's index % checkpoint_every for index >= 0, checkpoint_every # 0
PyMod(a, b) ==
    IF b > 0 THEN a % b
    ELSE LET r == a % (0 - b) IN IF r = 0 THEN 0 ELSE r + b

\* State when collect_question_urls has returned to run (line 574): the
\* listing showed n thread links and the load-more control was not there.
RunInit ==
    /\ test_limit = 0
    /\ max_pages = 0
    /\ max_stale_rounds = 3
    /\ checkpoint_every \in (0 - 1)..MaxCheckpoint
    /\ since_dt \in {parse_date(s) : s \in SinceInputs}
    /\ \E n \in 0..MaxUrls :
         /\ urls = Take(AllUrls, n)
         /\ stale_rounds = IF n = 0 THEN 1 ELSE 0
         /\ new_log = <<n>>
    /\ page_source = urls
    /\ seen = Range(urls)
    /\ pc = "returned"
    /\ click_count = 0
    /\ rounds = 1
    /\ stop = "button"
    /\ page_changed = FALSE
    /\ RunIdle
    /\ ExtIdle

\* no early return: the empty list goes on to the final save
RunNoUrls_falls_through ==
    /\ pc = "returned"
    /\ urls = <<>>
    /\ threads' = <<>>
    /\ pc' = "final_save"
    /\ UNCHANGED <<cfg_vars, ext_vars, disc_vars, index, thread, skipped_since, file, writes, extracted, ret, driver>>

\* lines 575-582
RunNoUrls ==
    /\ pc = "returned"
    /\ urls = <<>>
    /\ ret' = <<>>
    /\ pc' = "done"
    /\ UNCHANGED <<cfg_vars, ext_vars, disc_vars, index, thread, threads, skipped_since, file, writes, extracted, driver>>

\* lines 584-587
RunBegin ==
    /\ pc = "returned"
    /\ urls # <<>>
    /\ threads' = <<>>
    /\ skipped_since' = 0
    /\ index' = 1
    /\ pc' = "extract"
    /\ UNCHANGED <<cfg_vars, ext_vars, disc_vars, thread, file, writes, extracted, ret, driver>>

\* line 596, extract_thread lines 490-527
ExtractOk ==
    /\ pc = "extract"
    /\ \E attr \in DateAttrs : thread' = ThreadRecord(urls[index], attr)
    /\ extracted' = Append(extracted, "ok")
    /\ pc' = "filter"
    /\ UNCHANGED <<cfg_vars, ext_vars, disc_vars, index, threads, skipped_since, file, writes, ret, driver>>

\* extract_thread without its except clause
ExtractRaises_propagates ==
    /\ pc = "extract"
    /\ extracted' = Append(extracted, "raised")
    /\ pc' = "raised"
    /\ UNCHANGED <<cfg_vars, ext_vars, disc_vars, index, thread, threads, skipped_since, file, writes, ret, driver>>

\* line 596, extract_thread lines 528-542
ExtractRaises ==
    /\ pc = "extract"
    /\ \E m \in Messages : thread' = ErrorRecord(urls[index], m)
    /\ extracted' = Append(extracted, "raised")
    /\ pc' = "filter"
    /\ UNCHANGED <<cfg_vars, ext_vars, disc_vars, index, threads, skipped_since, file, writes, ret, driver>>

\* lines 597-598
KeepError ==
    /\ pc = "filter"
    /\ HasError(thread)
    /\ threads' = Append(threads, thread)
    /\ pc' = "checkpoint"
    /\ UNCHANGED <<cfg_vars, ext_vars, disc_vars, index, thread, skipped_since, file, writes, extracted, ret, driver>>

\* lines 599-601
KeepThread ==
    /\ pc = "filter"
    /\ ~HasError(thread)
    /\ is_after_since(thread) = "True"
    /\ threads' = Append(threads, thread)
    /\ pc' = "checkpoint"
    /\ UNCHANGED <<cfg_vars, ext_vars, disc_vars, index, thread, skipped_since, file, writes, extracted, ret, driver>>

\* lines 602-603
SkipThread ==
    /\ pc = "filter"
    /\ ~HasError(thread)
    /\ is_after_since(thread) = "False"
    /\ skipped_since' = skipped_since + 1
    /\ pc' = "checkpoint"
    /\ UNCHANGED <<cfg_vars, ext_vars, disc_vars, index, thread, threads, file, writes, extracted, ret, driver>>

\* line 600 with line 562 raising TypeError: nothing in run catches it
FilterRaises ==
    /\ pc = "filter"
    /\ ~HasError(thread)
    /\ is_after_since(thread) = "TypeError"
    /\ pc' = "raised"
    /\ UNCHANGED <<cfg_vars, ext_vars, disc_vars, run_vars>>

\* a URL whose extraction failed is extracted a second time
AfterCheckpoint_retries ==
    IF HasError(thread) /\ Len(extracted) = index
    THEN index' = index /\ pc' = "extract"
    ELSE IF index < Len(urls)
    THEN index' = index + 1 /\ pc' = "extract"
    ELSE index' = index /\ pc' = "final_save"

\* the step after line 606: the next URL, or the end of the for loop
AfterCheckpoint ==
    IF index < Len(urls)
    THEN index' = index + 1 /\ pc' = "extract"
    ELSE index' = index /\ pc' = "final_save"

\* a write that holds only the records kept since the write before
Save_only_new(checkpoint) ==
    /\ file' = [exists |-> TRUE,
                content |-> SubSeq(threads,
                                   (IF writes = <<>> THEN 0 ELSE writes[Len(writes)].count) + 1,
                                   Len(threads))]
    /\ writes' = Append(writes, [at |-> index, checkpoint |-> checkpoint, count |-> Len(threads)])

\* lines 544-546: the whole list replaces the file
Save(checkpoint) ==
    /\ file' = [exists |-> TRUE, content |-> threads]
    /\ writes' = Append(writes, [at |-> index, checkpoint |-> checkpoint, count |-> Len(threads)])

\* lines 605-606, index % checkpoint_every == 0
CheckpointSave ==
    /\ pc = "checkpoint"
    /\ checkpoint_every # 0
    /\ PyMod(index, checkpoint_every) = 0
    /\ Save(TRUE)
    /\ AfterCheckpoint
    /\ UNCHANGED <<cfg_vars, ext_vars, disc_vars, thread, threads, skipped_since, extracted, ret, driver>>

\* line 605, index % checkpoint_every # 0
CheckpointSkip ==
    /\ pc = "checkpoint"
    /\ checkpoint_every # 0
    /\ PyMod(index, checkpoint_every) # 0
    /\ AfterCheckpoint
    /\ UNCHANGED <<cfg_vars, ext_vars, disc_vars, thread, threads, skipped_since, file, writes, extracted, ret, driver>>

\* line 605 with checkpoint_every = 0: ZeroDivisionError
CheckpointDivZero ==
    /\ pc = "checkpoint"
    /\ checkpoint_every = 0
    /\ pc' = "raised"
    /\ UNCHANGED <<cfg_vars, ext_vars, disc_vars, run_vars>>

\* line 608
FinalSave ==
    /\ pc = "final_save"
    /\ Save(FALSE)
    /\ pc' = "finish"
    /\ UNCHANGED <<cfg_vars, ext_vars, disc_vars, index, thread, threads, skipped_since, extracted, ret, driver>>

\* lines 610-638
Finish ==
    /\ pc = "finish"
    /\ driver' = "quit"
    /\ ret' = threads
    /\ pc' = "done"
    /\ UNCHANGED <<cfg_vars, ext_vars, disc_vars, index, thread, threads, skipped_since, file, writes, extracted>>

RunNext ==
    \/ RunNoUrls
    \/ RunBegin
    \/ ExtractOk
    \/ ExtractRaises
    \/ KeepError
    \/ KeepThread
    \/ SkipThread
    \/ FilterRaises
    \/ CheckpointSave
    \/ CheckpointSkip
    \/ CheckpointDivZero
    \/ FinalSave
    \/ Finish

RunSpec == RunInit /\ [][RunNext]_vars

-----------------------------------------------------------------------------
(* Construction *)

\* A config value is absent from its dict, or present with a text.
ConfigValues == {[present |-> FALSE], [present |-> TRUE, value |-> ""],
                 [present |-> TRUE, value |-> "v"]}

required_selectors == {"load_more_button", "thread_url_pattern", "title"}

\* The selectors dict: some of the required names, each with a text.
SelectorDicts == UNION {[names -> {"", "sel"}] : names \in SUBSET required_selectors}
SelectorValues == {[present |-> FALSE]} \cup {[present |-> TRUE, value |-> d] : d \in SelectorDicts}

\* The forum entry of the config file.
Forums == [base_url : ConfigValues, thread_base : ConfigValues,
           forum_slug : ConfigValues, selectors : SelectorValues]

\* What the constructor finds: whether a config file exists, whether
\* forum_key is a key of its "forums", and the entry under that key.
RawConfigs == [file_exists : BOOLEAN, forum_known : BOOLEAN, forum : Forums]

\* line 95: self.forum.get("selectors", {})
SelectorsOf(forum) ==
    IF forum.selectors.present THEN forum.selectors.value ELSE <<>>

\* not self.forum.get(f), for the text fields
FieldFalsy(v) == ~v.present \/ v.value = ""

\* lines 158-159: the names of the required fields that are missing
MissingFields(forum) ==
    {f \in {"base_url", "thread_base", "forum_slug"} : FieldFalsy(forum[f])}
    \cup (IF ~forum.selectors.present \/ DOMAIN forum.selectors.value = {}
          THEN {"selectors"} ELSE {})

\* the required selectors that are not keys of the dict
MissingSelectors_keys_only(forum) ==
    {sel \in required_selectors : sel \notin DOMAIN SelectorsOf(forum)}

\* lines 163-164: not self.selectors.get(s)
MissingSelectors(forum) ==
    {sel \in required_selectors :
        \/ sel \notin DOMAIN SelectorsOf(forum)
        \/ SelectorsOf(forum)[sel] = ""}

\* the call ForumDumper(...), before line 91
InitInit ==
    /\ test_limit = 0
    /\ max_pages = 0
    /\ max_stale_rounds = 0
    /\ checkpoint_every = 0
    /\ since_dt = None
    /\ page_source = <<>>
    /\ urls = <<>>
    /\ seen = {}
    /\ click_count = 0
    /\ stale_rounds = 0
    /\ rounds = 0
    /\ new_log = <<>>
    /\ stop = "none"
    /\ page_changed = FALSE
    /\ index = 0
    /\ thread = NoThread
    /\ threads = <<>>
    /\ skipped_since = 0
    /\ file = OldFile
    /\ writes = <<>>
    /\ extracted = <<>>
    /\ ret = None
    /\ driver = "none"
    /\ raw_config \in RawConfigs
    /\ soup = NoDocument
    /\ out = NoDocument
    /\ pc = "load_config"

\* line 92, lines 128-147
LoadConfig ==
    /\ pc = "load_config"
    /\ raw_config.file_exists
    /\ pc' = "load_forum"
    /\ UNCHANGED <<cfg_vars, disc_vars, run_vars, ext_vars>>

\* lines 128-140: no file at the given path nor at a default path
LoadConfigRaises ==
    /\ pc = "load_config"
    /\ ~raw_config.file_exists
    /\ out' = [error |-> "FileNotFoundError"]
    /\ pc' = "raised"
    /\ UNCHANGED <<cfg_vars, disc_vars, run_vars, raw_config, soup>>

\* lines 94-110
LoadForum ==
    /\ pc = "load_forum"
    /\ raw_config.forum_known
    /\ max_stale_rounds' = 3
    /\ checkpoint_every' = 50
    /\ pc' = "validate"
    /\ UNCHANGED <<test_limit, max_pages, since_dt, page_source, disc_vars, run_vars, ext_vars>>

\* lines 149-154
LoadForumRaises ==
    /\ pc = "load_forum"
    /\ ~raw_config.forum_known
    /\ out' = [error |-> "ValueError", unknown |-> TRUE]
    /\ pc' = "raised"
    /\ UNCHANGED <<cfg_vars, disc_vars, run_vars, raw_config, soup>>

\* lines 157-168, nothing missing
ValidateForumConfig ==
    /\ pc = "validate"
    /\ MissingFields(raw_config.forum) = {}
    /\ MissingSelectors(raw_config.forum) = {}
    /\ pc' = "init_driver"
    /\ UNCHANGED <<cfg_vars, disc_vars, run_vars, ext_vars>>

\* lines 157-168, the first of the two lists that is not empty
ValidateForumConfigRaises ==
    /\ pc = "validate"
    /\ \/ MissingFields(raw_config.forum) # {}
       \/ MissingSelectors(raw_config.forum) # {}
    /\ out' = [error |-> "ValueError",
               missing |-> IF MissingFields(raw_config.forum) # {}
                           THEN MissingFields(raw_config.forum)
                           ELSE MissingSelectors(raw_config.forum)]
    /\ pc' = "raised"
    /\ UNCHANGED <<cfg_vars, disc_vars, run_vars, raw_config, soup>>

\* line 113, lines 170-214
InitDriver ==
    /\ pc = "init_driver"
    /\ driver' = "open"
    /\ pc' = "constructed"
    /\ UNCHANGED <<cfg_vars, disc_vars, index, thread, threads, skipped_since, file, writes, extracted, ret, ext_vars>>

InitNext ==
    \/ LoadConfig
    \/ LoadConfigRaises
    \/ LoadForum
    \/ LoadForumRaises
    \/ ValidateForumConfig
    \/ ValidateForumConfigRaises
    \/ InitDriver

InitSpec == InitInit /\ [][InitNext]_vars

-----------------------------------------------------------------------------
(* Field extraction: selector chains *)

\* the discovery variables outside collect_question_urls
DiscIdle ==
    /\ test_limit = 0
    /\ max_pages = 0
    /\ max_stale_rounds = 3
    /\ checkpoint_every = 50
    /\ since_dt = None
    /\ page_source = <<>>
    /\ urls = <<>>
    /\ seen = {}
    /\ click_count = 0
    /\ stale_rounds = 0
    /\ rounds = 0
    /\ new_log = <<>>
    /\ stop = "none"
    /\ page_changed = FALSE

MaxChain == 2          \* selectors in one chain

\* The selectors of a chain; "" is a selector that is configured empty.
Selectors == {"a", "b", "c"}
ChainSelectors == Selectors \cup {""}
Chains == UNION {[1..n -> ChainSelectors] : n \in 0..MaxChain}

\* What select_one finds for a selector: no element, or an element with its
\* raw text.
ElementTexts == [a |-> "text a", b |-> "text b", c |-> "text c"]
Elements(sel) == {[present |-> FALSE], [present |-> TRUE, text |-> ""],
                  [present |-> TRUE, text |-> " "],
                  [present |-> TRUE, text |-> ElementTexts[sel]]}
Documents == {d \in [Selectors -> UNION {Elements(sel) : sel \in Selectors}] :
                 \A sel \in Selectors : d[sel] \in Elements(sel)}

\* el.get_text(strip=True)
GetTextStrip(el) == IF el.text = " " THEN "" ELSE el.text

\* the text of the first element present, empty or not
RECURSIVE select_text_first_present(_, _)
select_text_first_present(doc, selectors) ==
    IF selectors = <<>> THEN ""
    ELSE IF Head(selectors) = "" THEN select_text_first_present(doc, Tail(selectors))
    ELSE IF doc[Head(selectors)].present THEN GetTextStrip(doc[Head(selectors)])
    ELSE select_text_first_present(doc, Tail(selectors))

\* lines 329-339
RECURSIVE select_text(_, _)
select_text(doc, selectors) ==
    IF selectors = <<>> THEN ""
    ELSE IF Head(selectors) = "" THEN select_text(doc, Tail(selectors))
    ELSE IF doc[Head(selectors)].present /\ GetTextStrip(doc[Head(selectors)]) # ""
         THEN GetTextStrip(doc[Head(selectors)])
    ELSE select_text(doc, Tail(selectors))

\* lines 389-393, select_one finding nothing for an empty selector
RECURSIVE extract_description(_, _)
extract_description(doc, selectors) ==
    IF selectors = <<>> THEN ""
    ELSE IF Head(selectors) # "" /\ doc[Head(selectors)].present
         THEN GetTextStrip(doc[Head(selectors)])
    ELSE extract_description(doc, Tail(selectors))

\* lines 389-391: the loop hands an empty selector to select_one
RECURSIVE ReachesEmptySelector(_, _)
ReachesEmptySelector(doc, selectors) ==
    IF selectors = <<>> THEN FALSE
    ELSE IF Head(selectors) = "" THEN TRUE
    ELSE IF doc[Head(selectors)].present THEN FALSE
    ELSE ReachesEmptySelector(doc, Tail(selectors))

\* extract_thread at line 495, the thread page parsed; the chain is the one
\* configured for the field
SelectInit ==
    /\ DiscIdle
    /\ RunIdle
    /\ raw_config \in {[chain |-> c] : c \in Chains}
    /\ soup \in Documents
    /\ out = NoDocument
    /\ pc = "parsed"

\* lines 329-339
SelectText ==
    /\ pc = "parsed"
    /\ out' = [text |-> select_text(soup, raw_config.chain)]
    /\ pc' = "text"
    /\ UNCHANGED <<cfg_vars, disc_vars, run_vars, raw_config, soup>>

\* lines 377-393
ExtractDescription ==
    /\ pc = "parsed"
    /\ out' = [text |-> extract_description(soup, raw_config.chain)]
    /\ pc' = "description"
    /\ UNCHANGED <<cfg_vars, disc_vars, run_vars, raw_config, soup>>

\* lines 389-390: select_one rejects the empty selector
ExtractDescriptionRaises ==
    /\ pc = "parsed"
    /\ ReachesEmptySelector(soup, raw_config.chain)
    /\ out' = [error |-> "select_one"]
    /\ pc' = "raised"
    /\ UNCHANGED <<cfg_vars, disc_vars, run_vars, raw_config, soup>>

SelectNext ==
    \/ SelectText
    \/ ExtractDescription
    \/ ExtractDescriptionRaises

SelectSpec == SelectInit /\ [][SelectNext]_vars

-----------------------------------------------------------------------------
(* Field extraction: status *)

MaxLabels == 2         \* status labels on one thread page

\* Texts are sequences of characters.
Lower(c) == CASE c = "S" -> "s" [] c = "O" -> "o" [] OTHER -> c
LowerStr(t) == [i \in 1..Len(t) |-> Lower(t[i])]

\* term in label
Contains(term, label) ==
    \E i \in 1..(Len(label) + 1) :
        /\ i + Len(term) - 1 <= Len(label)
        /\ SubSeq(label, i, i + Len(term) - 1) = term

LabelTexts == {<<"S", "o", "l", "v", "e", "d">>, <<"u", "n", "s", "o", "l", "v", "e", "d">>,
               <<"O", "p", "e", "n">>, <<"n", "e", "w">>, <<>>}
LabelLists == UNION {[1..n -> LabelTexts] : n \in 0..MaxLabels}
ResolvedTermLists == {<<>>, << <<"s", "o", "l", "v", "e", "d">> >>, << <<"S", "o", "l", "v", "e", "d">>, <<"d", "o", "n", "e">> >>}
UnresolvedTermLists == {<<>>, << <<"o", "p", "e", "n">>, <<"u", "n", "s", "o", "l", "v", "e", "d">> >>}

\* any(term in label for term in terms)
AnyTermIn(terms, label) == \E k \in 1..Len(terms) : Contains(terms[k], label)

\* one pass over the labels, the first label with a term of either list
\* deciding
RECURSIVE FirstLabelDecides(_, _, _, _)
FirstLabelDecides(labels, resolved_terms, unresolved_terms, best_answer) ==
    IF labels = <<>> THEN (IF best_answer THEN "resolved" ELSE "unknown")
    ELSE IF AnyTermIn(resolved_terms, Head(labels)) THEN "resolved"
    ELSE IF AnyTermIn(unresolved_terms, Head(labels)) THEN "unresolved"
    ELSE FirstLabelDecides(Tail(labels), resolved_terms, unresolved_terms, best_answer)

extract_status_single_pass(doc, status_indicators) ==
    FirstLabelDecides([i \in 1..Len(doc.labels) |-> LowerStr(doc.labels[i])],
                      [k \in 1..Len(status_indicators.resolved) |-> LowerStr(status_indicators.resolved[k])],
                      [k \in 1..Len(status_indicators.unresolved) |-> LowerStr(status_indicators.unresolved[k])],
                      doc.best_answer)

\* lines 420-436
extract_status(doc, status_indicators) ==
    LET labels == [i \in 1..Len(doc.labels) |-> LowerStr(doc.labels[i])]
        resolved_terms == [k \in 1..Len(status_indicators.resolved) |->
                              LowerStr(status_indicators.resolved[k])]
        unresolved_terms == [k \in 1..Len(status_indicators.unresolved) |->
                                LowerStr(status_indicators.unresolved[k])]
    IN IF \E i \in 1..Len(labels) : AnyTermIn(resolved_terms, labels[i]) THEN "resolved"
       ELSE IF \E i \in 1..Len(labels) : AnyTermIn(unresolved_terms, labels[i]) THEN "unresolved"
       ELSE IF doc.best_answer THEN "resolved"
       ELSE "unknown"

\* extract_thread at line 495, the thread page parsed
StatusInit ==
    /\ DiscIdle
    /\ RunIdle
    /\ raw_config \in {[status_indicators |-> [resolved |-> r, unresolved |-> u]] :
                          r \in ResolvedTermLists, u \in UnresolvedTermLists}
    /\ soup \in {[labels |-> l, best_answer |-> b] : l \in LabelLists, b \in BOOLEAN}
    /\ out = NoDocument
    /\ pc = "parsed"

\* line 505
ExtractStatus ==
    /\ pc = "parsed"
    /\ out' = [status |-> extract_status(soup, raw_config.status_indicators)]
    /\ pc' = "status"
    /\ UNCHANGED <<cfg_vars, disc_vars, run_vars, raw_config, soup>>

StatusNext == ExtractStatus

StatusSpec == StatusInit /\ [][StatusNext]_vars

-----------------------------------------------------------------------------
(* Field extraction: replies *)

MaxReplies == 2        \* reply items on one thread page

\* A reply item of the page: the author element (None: no such element)
\* with its text, a name followed by a role badge; the body element (None:
\* no such element) with its text; whether an accepted-marker selector
\* matches inside the item; whether one of its status labels reads
\* "accepted solution".
AuthorEls == {None, [name |-> "", badge |-> "Author"], [name |-> "bob", badge |-> ""],
              [name |-> "bob", badge |-> "Community Expert"]}
BodyEls == {None, [text |-> ""], [text |-> "body"]}
ReplyItems == [author_el : AuthorEls, body_el : BodyEls, marker : BOOLEAN, label : BOOLEAN]
ReplyPages == UNION {[1..n -> ReplyItems] : n \in 0..MaxReplies}

\* lines 449-455: get_text, the trailing badge removed, strip()
ReplyAuthor(item) == IF item.author_el = None THEN "" ELSE item.author_el.name

\* lines 465-466
ReplyText(item) == IF item.body_el = None THEN "" ELSE item.body_el.text

\* lines 447-481: the reply built from one item
ReplyOf(item) ==
    [author |-> ReplyAuthor(item), date |-> "", text |-> ReplyText(item),
     is_accepted |-> (item.marker \/ item.label), likes |-> 0]

\* a reply is appended only when it has a text and an author
RECURSIVE extract_replies_both(_)
extract_replies_both(items) ==
    IF items = <<>> THEN <<>>
    ELSE LET reply == ReplyOf(Head(items))
         IN IF reply.text # "" /\ reply.author # ""
            THEN <<reply>> \o extract_replies_both(Tail(items))
            ELSE extract_replies_both(Tail(items))

\* lines 446-486
RECURSIVE extract_replies(_)
extract_replies(items) ==
    IF items = <<>> THEN <<>>
    ELSE LET reply == ReplyOf(Head(items))
         IN IF reply.text # "" \/ reply.author # ""
            THEN <<reply>> \o extract_replies(Tail(items))
            ELSE extract_replies(Tail(items))

\* lines 512-515: the loop over replies, acc being thread["accepted_answer"]
RECURSIVE AcceptedLoop(_, _)
AcceptedLoop(replies, acc) ==
    IF replies = <<>> THEN acc
    ELSE AcceptedLoop(Tail(replies),
                      IF Head(replies).is_accepted THEN Head(replies) ELSE acc)

\* extract_thread at line 511, the thread page parsed
RepliesInit ==
    /\ DiscIdle
    /\ RunIdle
    /\ raw_config = NoDocument
    /\ soup \in {[items |-> p] : p \in ReplyPages}
    /\ out = NoDocument
    /\ pc = "replies"

\* line 511
ExtractReplies ==
    /\ pc = "replies"
    /\ out' = [replies |-> extract_replies(soup.items)]
    /\ pc' = "accepted"
    /\ UNCHANGED <<cfg_vars, disc_vars, run_vars, raw_config, soup>>

\* lines 506-516
SetAccepted ==
    /\ pc = "accepted"
    /\ out' = [replies |-> out.replies,
               accepted_answer |-> AcceptedLoop(out.replies, None),
               comments |-> out.replies]
    /\ pc' = "extracted"
    /\ UNCHANGED <<cfg_vars, disc_vars, run_vars, raw_config, soup>>

RepliesNext ==
    \/ ExtractReplies
    \/ SetAccepted

RepliesSpec == RepliesInit /\ [][RepliesNext]_vars

-----------------------------------------------------------------------------
(* Properties of collect_question_urls *)

\* the last n rounds each added no URL
LastRoundsZero(n) ==
    /\ Len(new_log) >= n
    /\ \A i \in 1..Len(new_log) : i > Len(new_log) - n => new_log[i] = 0

FixedPageNoLimits ==
    /\ test_limit = 0
    /\ max_pages = 0
    /\ ~page_changed
    /\ stop # "button"

\* C1: with a page source that never changes, no test limit, no max-pages
\* and a load-more control that never fails, the loop is left exactly when
\* the last max_stale_rounds rounds added nothing: it has not stopped while
\* fewer such rounds have passed, and it does not click once they have.
C1_HaltsAtStaleLimit ==
    FixedPageNoLimits =>
        /\ pc = "returned" =>
             /\ stop = "stale"
             /\ LastRoundsZero(max_stale_rounds)
             /\ stale_rounds >= max_stale_rounds
             /\ max_stale_rounds >= 1 =>
                  /\ stale_rounds = max_stale_rounds
                  /\ rounds = max_stale_rounds + (IF new_log[1] > 0 THEN 1 ELSE 0)
        /\ (pc = "scan" /\ rounds > 0) =>
             /\ ~LastRoundsZero(max_stale_rounds)
             /\ stale_rounds < max_stale_rounds

C1_Witness ==
    /\ FixedPageNoLimits
    /\ pc = "returned"
    /\ max_stale_rounds = 2
    /\ rounds = 3
    /\ new_log = <<2, 0, 0>>

C2_TestLimit == test_limit > 0 /\ Len(urls) >= test_limit
C2_MaxPages == max_pages > 0 /\ click_count >= max_pages
C2_Stale == stale_rounds >= max_stale_rounds

\* C2: after a scan round the stop conditions are taken in the order test
\* limit, max pages, stale rounds, load-more control: the first that holds
\* decides (the test limit returns the truncated list whatever else holds),
\* and the control is looked up only when none of the first three holds.
C2_StopPriority ==
    [][pc = "decide" =>
        /\ C2_TestLimit =>
             stop' = "test_limit" /\ pc' = "returned" /\ urls' = Take(urls, test_limit)
        /\ (~C2_TestLimit /\ C2_MaxPages) =>
             stop' = "max_pages" /\ pc' = "returned" /\ urls' = urls
        /\ (~C2_TestLimit /\ ~C2_MaxPages /\ C2_Stale) =>
             stop' = "stale" /\ pc' = "returned" /\ urls' = urls
        /\ (click_count' # click_count \/ stop' = "button") =>
             ~C2_TestLimit /\ ~C2_MaxPages /\ ~C2_Stale
      ]_vars

C2_Witness ==
    /\ stop = "test_limit"
    /\ max_pages > 0
    /\ click_count >= max_pages
    /\ Len(urls) = test_limit

\* C3: the URL list never holds the same canonical URL twice (no entry
\* carries a query string, no two entries are equal) and a scan round only
\* appends: what was in the list stays where it was.
C3_DedupFirstSeen ==
    /\ [](/\ \A i, j \in 1..Len(urls) : urls[i] = urls[j] => i = j
          /\ \A i \in 1..Len(urls) : "?" \notin Range(urls[i])
          /\ Range(urls) \subseteq seen)
    /\ [][pc = "scan" => Len(urls') >= Len(urls) /\ SubSeq(urls', 1, Len(urls)) = urls]_vars

C3_Witness ==
    /\ pc = "decide"
    /\ rounds = 2
    /\ page_source = <<Href_a_abs_q, Href_a>>
    /\ urls = <<thread_base \o Href_a>>

\* C4: with a test limit T the returned list has at most T entries however
\* the loop is left; when the limit is reached the list is cut to its first
\* T entries and no click follows.
C4_TestLimitCaps ==
    /\ []((pc = "returned" /\ test_limit > 0) =>
            /\ Len(urls) <= test_limit
            /\ stop = "test_limit" => Len(urls) = test_limit)
    /\ [][(stop = "none" /\ stop' = "test_limit") =>
            /\ urls' = Take(urls, test_limit)
            /\ click_count' = click_count
            /\ pc' = "returned"]_vars
    /\ [][pc = "returned" => click_count' = click_count /\ urls' = urls]_vars

C4_Witness ==
    /\ pc = "returned"
    /\ stop = "test_limit"
    /\ Len(urls) = test_limit
    /\ Cardinality(seen) > test_limit

\* C5: with max_pages M set, click_count never exceeds M and at most M + 1
\* scan rounds are performed.
C5_MaxPagesBound ==
    max_pages > 0 => click_count <= max_pages /\ rounds <= max_pages + 1

C5_Witness ==
    /\ max_pages = 2
    /\ click_count = 2
    /\ rounds = 3
    /\ stop = "max_pages"

-----------------------------------------------------------------------------
(* Properties of run *)

\* position of a URL in the discovered list
UrlIndex(u) == CHOOSE i \in 1..Len(urls) : urls[i] = u
\* the records of acc that belong to the first k discovered URLs
UpTo(acc, k) == SelectSeq(acc, LAMBDA r : UrlIndex(r.url) <= k)
LoopOver == pc \in {"finish", "done"} /\ urls # <<>>

\* C6: with checkpoint_every = k >= 1 and n >= 1 URLs the file is written
\* after each processed URL whose 1-based index is a multiple of k, kept or
\* not, and once more after the loop: n \div k + 1 writes when the loop is
\* over, each holding everything accumulated up to that point.
C6_CheckpointCadence ==
    (checkpoint_every >= 1 /\ urls # <<>>) =>
        /\ pc \in {"extract", "filter", "checkpoint"} =>
             Len(writes) = (index - 1) \div checkpoint_every
        /\ \A j \in 1..Len(writes) :
             /\ j <= Len(urls) \div checkpoint_every =>
                  writes[j].at = j * checkpoint_every /\ writes[j].checkpoint
             /\ writes[j].count = Len(UpTo(threads, writes[j].at))
        /\ writes # <<>> => file.content = UpTo(threads, writes[Len(writes)].at)
        /\ LoopOver =>
             /\ Len(writes) = Len(urls) \div checkpoint_every + 1
             /\ writes[Len(writes)].at = Len(urls)
             /\ ~writes[Len(writes)].checkpoint
             /\ file.content = threads

C6_Witness ==
    /\ pc = "done"
    /\ checkpoint_every = 2
    /\ Len(urls) = 5
    /\ Len(writes) = 3
    /\ <<writes[1].at, writes[2].at, writes[3].at>> = <<2, 4, 5>>
    /\ <<writes[1].count, writes[2].count, writes[3].count>> = <<1, 3, 4>>
    /\ skipped_since = 1
    /\ file.content = threads

ErrorFields == {"url", "error", "scraped_at"}

\* C7: an extraction that raises never ends the run: run is never left
\* through an exception at the extraction step or at the filter step of a
\* URL whose extraction raised, and when the loop is over every URL has been
\* processed and each URL whose extraction raised has a record in the file
\* with exactly the fields url, error and scraped_at.
C7_ExtractionErrorContained ==
    /\ [][pc' = "raised" =>
            /\ pc \in {"filter", "checkpoint"}
            /\ pc = "filter" => extracted[index] = "ok"]_vars
    /\ [][(pc = "extract" /\ Len(extracted') > Len(extracted)
             /\ extracted'[index] = "raised") =>
            /\ pc' = "filter"
            /\ DOMAIN thread' = ErrorFields
            /\ thread'.url = urls[index]]_vars
    /\ [](LoopOver =>
            /\ Len(extracted) = Len(urls)
            /\ \A i \in 1..Len(urls) :
                 extracted[i] = "raised" =>
                     \E j \in 1..Len(file.content) :
                         /\ file.content[j].url = urls[i]
                         /\ DOMAIN file.content[j] = ErrorFields)

C7_Witness ==
    /\ pc = "done"
    /\ Len(urls) = 3
    /\ extracted = <<"raised", "ok", "raised">>
    /\ Len(file.content) = 3
    /\ file.content[1].error = "boom"
    /\ file.content[3].error = ""

\* the condition of C8 on a record of the success variant
C8_KeepCondition(t) ==
    \/ since_dt = None
    \/ t.date_posted.fmt \in {"empty", "blank", "junk"}
    \/ t.date_posted.day >= since_dt.day

\* C8: a thread of the success variant is kept if and only if no since-date
\* is configured, or its post date is empty or unparseable, or its parsed
\* date is on or after the since-date.
C8_KeptIffOnOrAfterSince ==
    [][(pc = "filter" /\ "error" \notin DOMAIN thread) =>
          (threads' = Append(threads, thread) <=> C8_KeepCondition(thread))]_vars

\* C9: the record of a URL whose extraction raised is always appended to
\* the accumulator and never counted in skipped_since, whatever the
\* since-date and whatever the exception's message (the empty one included).
C9_ErrorVariantKept ==
    /\ [][(pc = "filter" /\ "error" \in DOMAIN thread) =>
            /\ threads' = Append(threads, thread)
            /\ skipped_since' = skipped_since
            /\ pc' = "checkpoint"]_vars
    /\ [](\A i \in 1..Len(extracted) :
            (extracted[i] = "raised" /\ (i < index \/ pc \notin {"extract", "filter"})) =>
                \E j \in 1..Len(threads) :
                    threads[j].url = urls[i] /\ "error" \in DOMAIN threads[j])

C9_Witness ==
    /\ pc = "checkpoint"
    /\ since_dt # None
    /\ since_dt.aware
    /\ skipped_since = 0
    /\ Len(threads) = 2
    /\ "error" \in DOMAIN threads[2]
    /\ threads[2].error = ""
    /\ thread = threads[2]

\* C10: when discovery returns no URL, run returns the empty list and
\* writes nothing: the output file is as it was before the run.
C10_NoUrlsNoWrite ==
    urls = <<>> =>
        /\ pc \in {"returned", "done"}
        /\ writes = <<>>
        /\ file = OldFile
        /\ pc = "done" => ret = <<>> /\ threads = <<>>

C10_Witness ==
    /\ pc = "done"
    /\ urls = <<>>
    /\ ret = <<>>
    /\ file = OldFile

\* C11: the browser session is quit once at the end of every call of run
\* that returns normally: whenever run has returned, the driver has been
\* quit.
C11_QuitOnEveryReturn ==
    pc = "done" => driver = "quit"

-----------------------------------------------------------------------------
(* Further properties of collect_question_urls *)

\* C13: a failure of the load-more click ends discovery: the step that
\* fails leaves click_count and the URLs as they are and returns, and no
\* further step (no retry, no scan) follows it.
C13_ClickFailureTerminal ==
    [][/\ (stop # "button" /\ stop' = "button") =>
             /\ pc' = "returned"
             /\ click_count' = click_count
             /\ urls' = urls
       /\ stop # "button"]_vars

C13_Witness ==
    /\ stop = "button"
    /\ pc = "returned"
    /\ click_count > 0
    /\ Len(urls) > 0

\* the number of zero entries at the end of a log of per-round growth
RECURSIVE TrailingZeros(_)
TrailingZeros(log) ==
    IF log = <<>> \/ log[Len(log)] # 0 THEN 0
    ELSE 1 + TrailingZeros(SubSeq(log, 1, Len(log) - 1))

\* C18: stale_rounds is the number of consecutive most recent rounds that
\* added no URL, and a click of the load-more control (successful or not)
\* is attempted only when stale_rounds < max_stale_rounds.
C18_StaleRoundsAreTrailingZeroRounds ==
    [][/\ stale_rounds = TrailingZeros(new_log)
       /\ stale_rounds' = TrailingZeros(new_log')
       /\ (click_count' # click_count \/ stop' = "button") =>
             stale_rounds < max_stale_rounds]_vars

C18_Witness ==
    /\ Len(new_log) = 3
    /\ new_log[1] = 0
    /\ new_log[2] > 0
    /\ new_log[3] = 0
    /\ stale_rounds = 1
    /\ click_count = 2

IsPrefixOf(s, t) ==
    /\ Len(s) <= Len(t)
    /\ \A i \in 1..Len(s) : s[i] = t[i]

\* C19: the list only grows by appending; the one step that shortens it is
\* the test-limit stop, which keeps the first test_limit URLs; every other
\* stop returns the whole accumulated list, one entry per URL seen.
C19_OnlyTestLimitTruncates ==
    [][/\ IsPrefixOf(urls, urls') \/ (stop' = "test_limit" /\ urls' = Take(urls, test_limit))
       /\ (pc' = "returned" /\ stop' # "test_limit") =>
             /\ urls' = urls
             /\ Len(urls') = Cardinality(seen')
             /\ Range(urls') = seen']_vars

C19_Witness ==
    /\ pc = "returned"
    /\ stop = "test_limit"
    /\ Len(urls) = test_limit
    /\ Cardinality(seen) > Len(urls)

\* C20: the URLs are extracted one by one in discovery order, each once,
\* a failed extraction included; the records kept are, in order, records of
\* distinct discovered URLs; and when the loop is over every URL has been
\* extracted and the records kept plus the threads skipped by the
\* since-date filter are as many as the discovered URLs.
C20_EachUrlOnceInOrder ==
    /\ [][Len(extracted') # Len(extracted) =>
            /\ pc = "extract"
            /\ Len(extracted') = Len(extracted) + 1
            /\ index = Len(extracted')
            /\ thread'.url = urls[index]]_vars
    /\ [](/\ Len(extracted) <= Len(urls)
          /\ Len(threads) + skipped_since <= Len(extracted)
          /\ \A i \in 1..Len(threads) :
               /\ \E k \in 1..Len(extracted) : threads[i].url = urls[k]
               /\ \A j \in 1..Len(threads) :
                    i < j => UrlIndex(threads[i].url) < UrlIndex(threads[j].url)
          /\ LoopOver =>
               /\ Len(extracted) = Len(urls)
               /\ Len(threads) + skipped_since = Len(urls)
               /\ file.content = threads
               /\ pc = "done" => ret = threads)

C20_Witness ==
    /\ pc = "done"
    /\ Len(urls) >= 3
    /\ extracted[1] = "raised"
    /\ skipped_since = 1
    /\ Len(threads) = Len(urls) - 1

\* C21: the accumulator of run starts empty and only grows by appending;
\* every write puts the whole accumulator in the file, so that the content
\* of a write is a prefix of the content of the next write, hence of every
\* later one; and after a normal return of a run with at least one URL the
\* file holds the list that run returns.
C21_AccumulatorPersistedWholesale ==
    /\ [][/\ (pc = "returned" /\ pc' = "extract") => threads' = <<>>
          /\ pc # "returned" =>
               \/ threads' = threads
               \/ Len(threads') = Len(threads) + 1 /\ IsPrefixOf(threads, threads')
          /\ Len(writes') > Len(writes) =>
               /\ file'.content = threads
               /\ writes # <<>> => IsPrefixOf(file.content, file'.content)
          /\ (Len(writes') = Len(writes) /\ writes # <<>>) => file' = file]_vars
    /\ []((pc = "done" /\ urls # <<>>) => file.content = ret)

C21_Witness ==
    /\ pc = "done"
    /\ Len(writes) >= 3
    /\ writes[1].count >= 1
    /\ writes[2].count > writes[1].count
    /\ writes[Len(writes)].count > writes[2].count
    /\ file.content = ret

\* C22: for every value of checkpoint_every, 0 and negative values
\* included, the checkpoint test after a URL never ends the run: the run
\* goes on to the next URL or to the final write, and the final write
\* leaves every kept thread in the file.
C22_FinalSaveForEveryCadence ==
    [][/\ pc = "checkpoint" => pc' \in {"extract", "final_save"}
       /\ pc = "final_save" => (pc' = "finish" /\ file'.content = threads)]_vars

\* C24: for every since value that parse_date accepts and every thread
\* extracted without error, _is_after_since returns a boolean: the filter
\* step never ends the run with an exception.
C24_FilterNeverRaises ==
    [][pc = "filter" =>
          /\ pc' = "checkpoint"
          /\ HasError(thread) \/ is_after_since(thread) \in {"True", "False"}]_vars

-----------------------------------------------------------------------------
(* Properties of the construction *)

\* a config value that is missing or empty
C14_Empty(v) == ~v.present \/ v.value = ""

\* the required selector sel is missing or empty
C14_SelectorEmpty(forum, sel) ==
    \/ ~forum.selectors.present
    \/ sel \notin DOMAIN forum.selectors.value
    \/ forum.selectors.value[sel] = ""

C14_ConfigError ==
    \/ ~raw_config.file_exists
    \/ ~raw_config.forum_known
    \/ \E f \in {"base_url", "thread_base", "forum_slug"} : C14_Empty(raw_config.forum[f])
    \/ ~raw_config.forum.selectors.present
    \/ DOMAIN raw_config.forum.selectors.value = {}
    \/ \E sel \in required_selectors : C14_SelectorEmpty(raw_config.forum, sel)

\* C14: when the config file is missing, the forum key is unknown, or a
\* required field or required selector is missing or empty, the
\* construction raises and no webdriver has been created: a webdriver
\* exists only for a configuration without any of these errors, and never
\* when the construction has raised.
C14_ConfigErrorsBeforeDriver ==
    /\ pc = "raised" => driver = "none"
    /\ driver # "none" => ~C14_ConfigError
    /\ (C14_ConfigError /\ pc \in {"raised", "constructed"}) => pc = "raised"

C14_Witness ==
    /\ pc = "raised"
    /\ driver = "none"
    /\ raw_config.file_exists
    /\ raw_config.forum_known
    /\ \A f \in {"base_url", "thread_base", "forum_slug"} : ~C14_Empty(raw_config.forum[f])
    /\ raw_config.forum.selectors.present
    /\ DOMAIN raw_config.forum.selectors.value = required_selectors
    /\ raw_config.forum.selectors.value["title"] = ""
    /\ out.error = "ValueError"

\* the rounds a discovery can have made when it has seen this many URLs
C23_RoundBound ==
    (Cardinality(seen) + 1) * (IF max_stale_rounds > 1 THEN max_stale_rounds ELSE 1)

\* C23: with pages drawn from a finite set of URLs, and for every
\* configuration and every outcome of the clicks, collect_question_urls
\* returns: the rounds made never exceed a bound given by the URLs seen and
\* max_stale_rounds, and a stop condition is reached in the end.
C23_DiscoveryTerminates ==
    /\ [](rounds <= C23_RoundBound)
    /\ <>(pc = "returned")

C23_Witness ==
    /\ pc = "returned"
    /\ stop = "stale"
    /\ test_limit = 0
    /\ max_pages = 0
    /\ max_stale_rounds = 2
    /\ Cardinality(seen) = 2
    /\ rounds = C23_RoundBound

-----------------------------------------------------------------------------
(* Properties of the field extraction *)

\* a term of the list is in the label, letter case set aside
C15_HasTerm(terms, label) ==
    \E k \in 1..Len(terms) : Contains(LowerStr(terms[k]), LowerStr(label))

C15_SomeLabel(terms) ==
    \E i \in 1..Len(soup.labels) : C15_HasTerm(terms, soup.labels[i])

\* C15: the status is "resolved" if any label contains a resolved term,
\* also when an earlier label contains an unresolved term; otherwise
\* "unresolved" if any label contains an unresolved term; otherwise
\* "resolved" if the page has a best-answer marker; otherwise "unknown".
C15_ResolvedPriority ==
    pc = "status" =>
        out.status =
            IF C15_SomeLabel(raw_config.status_indicators.resolved) THEN "resolved"
            ELSE IF C15_SomeLabel(raw_config.status_indicators.unresolved) THEN "unresolved"
            ELSE IF soup.best_answer THEN "resolved"
            ELSE "unknown"

C15_Witness ==
    /\ pc = "status"
    /\ Len(soup.labels) = 2
    /\ soup.labels[1] = <<"O", "p", "e", "n">>
    /\ soup.labels[2] = <<"S", "o", "l", "v", "e", "d">>
    /\ Len(raw_config.status_indicators.resolved) = 1
    /\ Len(raw_config.status_indicators.unresolved) = 2
    /\ out.status = "resolved"

\* the positions of the chain whose selector finds an element
C16_Present ==
    {i \in 1..Len(raw_config.chain) :
        raw_config.chain[i] # "" /\ soup[raw_config.chain[i]].present}

\* the text the selector at position i yields
C16_Text(i) ==
    IF soup[raw_config.chain[i]].text = " " THEN "" ELSE soup[raw_config.chain[i]].text

\* the positions of the chain whose selector yields a non-empty text
C16_Yielding == {i \in C16_Present : C16_Text(i) # ""}

\* the text at the first position of a set of positions, "" for no position
C16_First(positions) ==
    IF positions = {} THEN ""
    ELSE C16_Text(CHOOSE i \in positions : \A j \in positions : i <= j)

\* C16 as stated: for every configured selector chain, the description
\* chain included, the extractor returns the text of the first selector
\* that yields a non-empty text, and "" when none does.
C16_FirstNonEmptyForAllChains ==
    pc \in {"text", "description"} => out.text = C16_First(C16_Yielding)

\* C16 amended: _select_text returns the text of the first selector that
\* yields a non-empty text, passing over empty selectors, absent elements
\* and elements with an empty text, and "" when none does; the description
\* chain returns the text of the first selector whose element is present,
\* also when that text is empty.
C16_SelectTextFirstNonEmpty ==
    /\ pc = "text" => out.text = C16_First(C16_Yielding)
    /\ pc = "description" => out.text = C16_First(C16_Present)

C16_Witness ==
    /\ pc = "text"
    /\ Len(raw_config.chain) = 2
    /\ raw_config.chain[1] = "a"
    /\ raw_config.chain[2] = "b"
    /\ soup["a"] = [present |-> TRUE, text |-> " "]
    /\ soup["b"].present
    /\ out.text = "text b"

-----------------------------------------------------------------------------
(* Properties of the reply extraction *)

\* positions of the accepted replies
AcceptedAt(replies) == {i \in 1..Len(replies) : replies[i].is_accepted}

\* C12: accepted_answer is the first reply, in document order, whose
\* accepted flag is true, and None when no reply is accepted.
C12_FirstAcceptedWins ==
    pc = "extracted" =>
        IF AcceptedAt(out.comments) = {} THEN out.accepted_answer = None
        ELSE \E i \in AcceptedAt(out.comments) :
                /\ \A j \in AcceptedAt(out.comments) : i <= j
                /\ out.accepted_answer = out.comments[i]

\* the claim-side reading of one item
C17_Author(item) == IF item.author_el = None THEN "" ELSE item.author_el.name
C17_Body(item) == IF item.body_el = None THEN "" ELSE item.body_el.text
C17_Kept(items) == SelectSeq(items, LAMBDA it : ~(C17_Author(it) = "" /\ C17_Body(it) = ""))

\* C17: a reply item is left out of the reply list if and only if its
\* author, the badge stripped, and its body text are both empty; the
\* replies kept are in document order.
C17_ReplyKeptUnlessEmpty ==
    pc \in {"accepted", "extracted"} =>
        /\ Len(out.replies) = Len(C17_Kept(soup.items))
        /\ \A i \in 1..Len(out.replies) :
             /\ out.replies[i].author = C17_Author(C17_Kept(soup.items)[i])
             /\ out.replies[i].text = C17_Body(C17_Kept(soup.items)[i])
             /\ out.replies[i].author # "" \/ out.replies[i].text # ""

C17_Witness ==
    /\ pc = "accepted"
    /\ Len(soup.items) = 2
    /\ soup.items[1].author_el = [name |-> "", badge |-> "Author"]
    /\ soup.items[1].body_el = [text |-> ""]
    /\ soup.items[2].author_el = None
    /\ soup.items[2].body_el = [text |-> "body"]
    /\ Len(out.replies) = 1
    /\ out.replies[1].text = "body"

====
